---- MODULE Spec2Model ----
(***************************************************************************)
(* Model of daily_split_app.py: the Streamlit script that reads a          *)
(* reservations table, calls split_reservations_daily on it and offers the *)
(* original and the nightly table for download.                            *)
(*                                                                         *)
(* Conventions of the model                                                *)
(*  - A column header is a sequence of tokens: a token is either one       *)
(*    whitespace character or a maximal run of non-whitespace characters.  *)
(*  - A cell is a record [k, s, x, y, z]; k is the kind of the value.      *)
(*      "str"   text s                                                     *)
(*      "date"  a date cell written as day z, month y, year x              *)
(*      "ts"    pandas Timestamp, x = whole days since 1970-01-01          *)
(*      "nat"   NaT                                                        *)
(*      "nan"   NaN / missing                                              *)
(*      "int"   integer x                                                  *)
(*      "num"   number x / y in thousandths of the currency unit (y > 0)   *)
(*      "index" DatetimeIndex date_range(x, y, freq="D"), x and y in days  *)
(*  - Float arithmetic is exact rational arithmetic. numpy's round works   *)
(*    on the binary double: when the exact value lies halfway between two  *)
(*    cents, the representation error of the double decides the direction, *)
(*    so either neighbour can result. The halves that go up are an input   *)
(*    of the rounding operators (a set of floors).                         *)
(*  - A DataFrame is [columns, index, rows]: the headers, the row labels   *)
(*    and the rows, each row a sequence of cells aligned with columns.     *)
(***************************************************************************)
EXTENDS Integers, Sequences, FiniteSets, TLC

(***************************************************************************)
(* Generic helpers                                                         *)
(***************************************************************************)
Range(s) == {s[i] : i \in DOMAIN s}

InSeq(s, e) == \E i \in DOMAIN s : s[i] = e

Abs(n) == IF n < 0 THEN -n ELSE n

RECURSIVE Gcd(_, _)
Gcd(a, b) == IF b = 0 THEN Abs(a) ELSE Gcd(b, a % Abs(b))

RECURSIVE Flatten(_)
Flatten(ss) == IF ss = <<>> THEN <<>> ELSE Head(ss) \o Flatten(Tail(ss))

SetMax(S) == CHOOSE m \in S : \A n \in S : n <= m

(***************************************************************************)
(* Headers                                                                 *)
(***************************************************************************)
Whitespace == {" ", "\t", "\n"}

\* The header made of the given words separated by single spaces.
H(ws) == [i \in 1..(2 * Len(ws) - 1) |-> IF i % 2 = 1 THEN ws[(i + 1) \div 2] ELSE " "]

RECURSIVE LStrip(_)
LStrip(h) == IF h # <<>> /\ Head(h) \in Whitespace THEN LStrip(Tail(h)) ELSE h

RECURSIVE RStrip(_)
RStrip(h) ==
    IF h # <<>> /\ h[Len(h)] \in Whitespace THEN RStrip(SubSeq(h, 1, Len(h) - 1)) ELSE h

\* .str.replace(r"\s+", " ", regex=True): every whitespace run becomes one space
RECURSIVE ReplaceWsRuns(_)
ReplaceWsRuns(h) ==
    IF h = <<>> THEN <<>>
    ELSE IF Head(h) \in Whitespace THEN <<" ">> \o ReplaceWsRuns(LStrip(Tail(h)))
    ELSE <<Head(h)>> \o ReplaceWsRuns(Tail(h))

\* .str.strip()
StrStrip(h) == RStrip(LStrip(h))

\* Variant: the headers are stripped but inner whitespace runs are kept.
StripOnly(h) == StrStrip(h)

CleanName(h) == StrStrip(ReplaceWsRuns(h))

TEMPLATE_COLUMNS ==
    << H(<<"Reservation", "Number">>), H(<<"Apartment">>), H(<<"Guest", "Name">>),
       H(<<"Channel">>), H(<<"Arrival">>), H(<<"Departure">>), H(<<"Booking", "Date">>),
       H(<<"Base", "Revenue">>), H(<<"Total", "Revenue">>), H(<<"Room", "Revenue">>),
       H(<<"SC", "on", "Room", "Revenue">>), H(<<"VAT", "on", "Room", "Rev">>),
       H(<<"VAT", "on", "SC">>), H(<<"Cleaning", "Fees", "Without", "VAT">>),
       H(<<"VAT", "on", "Cleaning", "Fees">>), H(<<"Tourism", "Dirham", "Fees">>),
       H(<<"Cleaning", "Fees">>) >>

required ==
    << H(<<"Reservation", "Number">>), H(<<"Arrival">>), H(<<"Departure">>),
       H(<<"Booking", "Date">>) >>

money_cols ==
    << H(<<"Base", "Revenue">>), H(<<"Total", "Revenue">>), H(<<"Room", "Revenue">>),
       H(<<"SC", "on", "Room", "Revenue">>), H(<<"VAT", "on", "Room", "Rev">>),
       H(<<"VAT", "on", "SC">>), H(<<"Cleaning", "Fees", "Without", "VAT">>),
       H(<<"VAT", "on", "Cleaning", "Fees">>), H(<<"Tourism", "Dirham", "Fees">>),
       H(<<"Cleaning", "Fees">>) >>

\* rename_map, as the sequence of the new names aligned with money_cols
rename_map ==
    << H(<<"Base", "Revenue", "per", "Night">>), H(<<"Total", "Revenue", "per", "Night">>),
       H(<<"Room", "Revenue", "per", "Night">>), H(<<"Service", "Charge", "per", "Night">>),
       H(<<"VAT", "on", "Room", "Revenue", "per", "Night">>),
       H(<<"VAT", "on", "Service", "Charge", "per", "Night">>),
       H(<<"Cleaning", "Fees", "(Excl", "VAT)", "per", "Night">>),
       H(<<"VAT", "on", "Cleaning", "Fees", "per", "Night">>),
       H(<<"Tourism", "Dirham", "Fees", "per", "Night">>),
       H(<<"Cleaning", "Fees", "per", "Night">>) >>

desired_cols ==
    << H(<<"Reservation", "Number">>), H(<<"Apartment">>), H(<<"Guest", "Name">>),
       H(<<"Sub", "Channel">>), H(<<"Date">>), H(<<"Booking", "Date">>), H(<<"Nights">>) >>
    \o rename_map

(***************************************************************************)
(* Cells                                                                   *)
(***************************************************************************)
Cell(k, s, x, y, z) == [k |-> k, s |-> s, x |-> x, y |-> y, z |-> z]

Str(s) == Cell("str", s, 0, 0, 0)
DateCell(day, month, year) == Cell("date", "", year, month, day)
Timestamp(days) == Cell("ts", "", days, 0, 0)
NaT == Cell("nat", "", 0, 0, 0)
NaN == Cell("nan", "", 0, 0, 0)
IntCell(n) == Cell("int", "", n, 0, 0)
DatetimeIndex(start, stop) == Cell("index", "", start, stop, 0)
EmptyDatetimeIndex == Cell("index", "", 0, -1, 0)

\* The number n / d, in lowest terms.
Num(n, d) ==
    LET g  == Gcd(n, d)
        sg == IF d < 0 THEN -1 ELSE 1
    IN  IF g = 0 THEN Cell("num", "", 0, 1, 0)
        ELSE Cell("num", "", (sg * n) \div g, (sg * d) \div g, 0)

notna(c) == c.k \notin {"nan", "nat"}

(***************************************************************************)
(* Calendar: the proleptic Gregorian calendar of pandas' Timestamp         *)
(***************************************************************************)
IsLeap(y) == (y % 4 = 0 /\ y % 100 # 0) \/ y % 400 = 0

DaysInMonth(y, m) ==
    IF m = 2 THEN (IF IsLeap(y) THEN 29 ELSE 28)
    ELSE IF m \in {4, 6, 9, 11} THEN 30 ELSE 31

IsValidDate(y, m, d) == m \in 1..12 /\ d >= 1 /\ d <= DaysInMonth(y, m)

\* Whole days from 1970-01-01 to the civil date y-m-d.
DaysFromCivil(y, m, d) ==
    LET yy  == IF m <= 2 THEN y - 1 ELSE y
        era == yy \div 400
        yoe == yy - era * 400
        mp  == IF m > 2 THEN m - 3 ELSE m + 9
        doy == (153 * mp + 2) \div 5 + d - 1
        doe == yoe * 365 + yoe \div 4 - yoe \div 100 + doy
    IN  era * 146097 + doe - 719468

(***************************************************************************)
(* DataFrames                                                              *)
(***************************************************************************)
DataFrame(columns, index, rows) == [columns |-> columns, index |-> index, rows |-> rows]

NRows(t) == Len(t.rows)

RangeIndex(n) == [i \in 1..n |-> i - 1]

HasCol(t, c) == InSeq(t.columns, c)

ColIndex(t, c) ==
    CHOOSE i \in DOMAIN t.columns :
        t.columns[i] = c /\ \A j \in 1..(i - 1) : t.columns[j] # c

\* df[c], and its value in the row at position r
Column(t, c) == LET i == ColIndex(t, c) IN [r \in 1..NRows(t) |-> t.rows[r][i]]
CellAt(t, r, c) == t.rows[r][ColIndex(t, c)]

\* df[c] = vals: overwrite the column, or append it when it is new
SetColumn(t, c, vals) ==
    IF HasCol(t, c)
    THEN LET i == ColIndex(t, c) IN
         [t EXCEPT !.rows = [r \in 1..NRows(t) |-> [t.rows[r] EXCEPT ![i] = vals[r]]]]
    ELSE [t EXCEPT !.columns = Append(t.columns, c),
                   !.rows = [r \in 1..NRows(t) |-> Append(t.rows[r], vals[r])]]

RemoveAt(s, i) == SubSeq(s, 1, i - 1) \o SubSeq(s, i + 1, Len(s))

\* df.drop(columns=[c])
DropColumn(t, c) ==
    LET i == ColIndex(t, c) IN
    [t EXCEPT !.columns = RemoveAt(t.columns, i),
              !.rows = [r \in 1..NRows(t) |-> RemoveAt(t.rows[r], i)]]

DropIfPresent(t, c) == IF HasCol(t, c) THEN DropColumn(t, c) ELSE t

\* df.rename(columns={old: new})
RenameColumn(t, old, new) ==
    [t EXCEPT !.columns = [i \in DOMAIN t.columns |->
                              IF t.columns[i] = old THEN new ELSE t.columns[i]]]

\* df[cols]
SelectColumns(t, cols) ==
    DataFrame(cols, t.index,
              [r \in 1..NRows(t) |-> [j \in DOMAIN cols |-> t.rows[r][ColIndex(t, cols[j])]]])

\* The positions of S in increasing order.
RECURSIVE Ascending(_, _)
Ascending(S, n) ==
    IF n = 0 THEN <<>>
    ELSE Ascending(S, n - 1) \o (IF n \in S THEN <<n>> ELSE <<>>)

\* The rows at the positions pos, with their labels.
TakeRows(t, pos) ==
    DataFrame(t.columns, [i \in DOMAIN pos |-> t.index[pos[i]]],
              [i \in DOMAIN pos |-> t.rows[pos[i]]])

(***************************************************************************)
(* Conversions and arithmetic on cells                                     *)
(***************************************************************************)
\* pd.to_datetime(..., dayfirst=True, errors="coerce") on one cell: a date
\* that exists becomes a Timestamp, anything else NaT.
to_datetime(c) ==
    CASE c.k = "date" ->
            IF IsValidDate(c.x, c.y, c.z) THEN Timestamp(DaysFromCivil(c.x, c.y, c.z)) ELSE NaT
      [] c.k = "ts" -> c
      [] c.k \in {"str", "nan", "nat"} -> NaT

\* Variant: day 1 of the 1900 date system taken for the epoch.
EPOCH_1900 == Timestamp(DaysFromCivil(1900, 1, 1))

EXCEL_EPOCH == Timestamp(DaysFromCivil(1899, 12, 30))

\* (a - b).dt.days on one cell: NaN when either side is NaT
dt_days(a, b) == IF a.k = "ts" /\ b.k = "ts" THEN IntCell(a.x - b.x) ELSE NaN

\* Texts that read as numbers, with their value in thousandths.
NumericText == ("100.00" :> 100000) @@ ("0.5" :> 500)

\* pd.to_numeric(..., errors="coerce") on one cell
to_numeric(c) ==
    CASE c.k = "num" -> c
      [] c.k = "int" -> Num(c.x * 1000, 1)
      [] c.k = "str" -> IF c.s \in DOMAIN NumericText THEN Num(NumericText[c.s], 1) ELSE NaN
      [] c.k \in {"nan", "nat"} -> NaN

\* Variant: the missing values are not filled.
KeepNaN(c) == c

\* .fillna(0.0) on one cell
fillna_zero(c) == IF c.k = "nan" THEN Num(0, 1) ELSE c

\* .fillna(0).astype(int) on one cell
fillna_int(c) == IF c.k = "nan" THEN IntCell(0) ELSE c

\* .replace(0, pd.NA) on one cell
replace_zero_na(c) == IF c.k = "int" /\ c.x = 0 THEN NaN ELSE c

\* a / b for a number a and a denominator b (an integer or NA)
true_divide(a, b) == IF b.k = "nan" \/ a.k = "nan" THEN NaN ELSE Num(a.x, a.y * b.x)

\* a + b and a - b; NaN when either side is NaN
Add(a, b) ==
    IF a.k = "nan" \/ b.k = "nan" THEN NaN ELSE Num(a.x * b.y + b.x * a.y, a.y * b.y)

Sub(a, b) ==
    IF a.k = "nan" \/ b.k = "nan" THEN NaN ELSE Num(a.x * b.y - b.x * a.y, a.y * b.y)

\* Series.sum(): NaN is skipped
RECURSIVE Sum(_)
Sum(vals) ==
    IF vals = <<>> THEN Num(0, 1)
    ELSE IF Head(vals).k = "nan" THEN Sum(Tail(vals))
    ELSE Add(Head(vals), Sum(Tail(vals)))

\* n / d (d > 0) rounded to the nearest integer; the value q + 1/2 goes up
\* when q is in up, down otherwise
rint(n, d, up) ==
    LET q == n \div d
        r == n % d
    IN  IF 2 * r < d THEN q
        ELSE IF 2 * r > d THEN q + 1
        ELSE IF q \in up THEN q + 1 ELSE q

\* .round(2): numpy rounds x * 100 to the nearest integer and divides by 100
round2(c, up) == IF c.k = "nan" THEN NaN ELSE Num(rint(c.x, c.y * 10, up) * 10, 1)

\* c lies halfway between two cents
IsHalfCent(c) == c.k = "num" /\ 2 * (c.x % (c.y * 10)) = c.y * 10

\* The whole number of cents below c.
CentsBelow(c) == c.x \div (c.y * 10)

\* pd.date_range(start, stop, freq="D") as the sequence of its Timestamps
IndexElements(c) ==
    [j \in 1..(IF c.y >= c.x THEN c.y - c.x + 1 ELSE 0) |-> Timestamp(c.x + j - 1)]

(***************************************************************************)
(* split_reservations_daily, statement by statement, as DataFrame          *)
(* transformers                                                            *)
(***************************************************************************)
Arrival == H(<<"Arrival">>)
Departure == H(<<"Departure">>)
BookingDate == H(<<"Booking", "Date">>)
LineIdCol == H(<<"_line_id">>)
TotalNightsCol == H(<<"_total_nights">>)
StayDatesCol == H(<<"Stay_dates">>)
DateCol == H(<<"Date">>)
NightsCol == H(<<"Nights">>)

\* df.columns = df.columns.astype(str).str.replace(r"\s+", " ", regex=True).str.strip()
CleanColumns(t) == [t EXCEPT !.columns = [i \in DOMAIN t.columns |-> CleanName(t.columns[i])]]

\* Variant: the check stops at the first missing column.
FirstMissingColumn(t) ==
    LET missing == SelectSeq(required, LAMBDA c : ~HasCol(t, c)) IN
    IF missing = <<>> THEN <<>> ELSE <<Head(missing)>>

\* missing = [c for c in required if c not in df.columns]
MissingColumns(t) == SelectSeq(required, LAMBDA c : ~HasCol(t, c))

\* df[c] = pd.to_datetime(df[c], dayfirst=True, errors="coerce")
ColumnToDatetime(t, c) == SetColumn(t, c, [r \in 1..NRows(t) |-> to_datetime(CellAt(t, r, c))])

ConvertDateColumns(t) ==
    ColumnToDatetime(ColumnToDatetime(ColumnToDatetime(t, Arrival), Departure), BookingDate)

\* df["_line_id"] = range(len(df))
AssignLineId(t) == SetColumn(t, LineIdCol, [r \in 1..NRows(t) |-> IntCell(r - 1)])

\* df["_total_nights"] = (df["Departure"] - df["Arrival"]).dt.days, NaN -> 0, as int
AssignTotalNights(t) ==
    SetColumn(t, TotalNightsCol,
              [r \in 1..NRows(t) |->
                  fillna_int(dt_days(CellAt(t, r, Departure), CellAt(t, r, Arrival)))])

\* Variant: the range runs through the departure date.
StayDatesThroughDeparture(start, end) ==
    IF notna(start) /\ notna(end) /\ end.x > start.x
    THEN DatetimeIndex(start.x, end.x)
    ELSE EmptyDatetimeIndex

\* One entry of the Stay_dates list comprehension.
StayDatesOf(start, end) ==
    IF notna(start) /\ notna(end) /\ end.x > start.x
    THEN DatetimeIndex(start.x, end.x - 1)
    ELSE EmptyDatetimeIndex

AssignStayDates(t) ==
    SetColumn(t, StayDatesCol,
              [r \in 1..NRows(t) |-> StayDatesOf(CellAt(t, r, Arrival), CellAt(t, r, Departure))])

\* The rows df.explode(c) makes of row r: one per element of the list in
\* column c, and one row holding NaN when the list is empty.
ExplodedRow(t, c, r) ==
    LET elems == IndexElements(t.rows[r][ColIndex(t, c)]) IN
    IF elems = <<>>
    THEN << [t.rows[r] EXCEPT ![ColIndex(t, c)] = NaN] >>
    ELSE [j \in DOMAIN elems |-> [t.rows[r] EXCEPT ![ColIndex(t, c)] = elems[j]]]

\* df.explode(c): every exploded row keeps the label of the row it came from
explode(t, c) ==
    DataFrame(t.columns,
              Flatten([r \in 1..NRows(t) |->
                          [j \in DOMAIN ExplodedRow(t, c, r) |-> t.index[r]]]),
              Flatten([r \in 1..NRows(t) |-> ExplodedRow(t, c, r)]))

\* .reset_index(drop=True)
reset_index(t) == [t EXCEPT !.index = RangeIndex(NRows(t))]

\* Variant: the rows explode makes of empty lists are not removed.
KeepAll(t, c) == t

\* df_daily[df_daily[c].notna()].copy()
KeepNotNa(t, c) ==
    TakeRows(t, Ascending({r \in 1..NRows(t) : notna(t.rows[r][ColIndex(t, c)])}, NRows(t)))

ExplodeStayDates(t) == KeepNotNa(reset_index(explode(t, StayDatesCol)), StayDatesCol)

\* df_daily["Date"] = (pd.to_datetime(df_daily["Stay_dates"]) - EXCEL_EPOCH).dt.days
AssignDate(t) ==
    SetColumn(t, DateCol,
              [r \in 1..NRows(t) |->
                  dt_days(to_datetime(CellAt(t, r, StayDatesCol)), EXCEL_EPOCH)])

\* df_daily["Booking Date"] = (pd.to_datetime(df_daily["Booking Date"]) - EXCEL_EPOCH).dt.days
AssignBookingDate(t) ==
    SetColumn(t, BookingDate,
              [r \in 1..NRows(t) |->
                  dt_days(to_datetime(CellAt(t, r, BookingDate)), EXCEL_EPOCH)])

\* df_daily["Nights"] = 1
AssignNights(t) == SetColumn(t, NightsCol, [r \in 1..NRows(t) |-> IntCell(1)])

ExcelSerials(t) == AssignNights(AssignBookingDate(AssignDate(t)))

\* for col in money_cols: if col in df.columns: df[col] = vals(df, col)
\* (each pass reads and writes only its own column)
ForMoneyCols(t, vals(_, _)) ==
    LET new == [j \in DOMAIN t.columns |->
                   IF InSeq(money_cols, t.columns[j]) THEN vals(t, t.columns[j]) ELSE <<>>]
    IN  [t EXCEPT !.rows =
            [r \in 1..NRows(t) |->
                [j \in DOMAIN t.columns |->
                    IF InSeq(money_cols, t.columns[j]) THEN new[j][r] ELSE t.rows[r][j]]]]

\* df_daily[col] = pd.to_numeric(df_daily[col], errors="coerce").fillna(0.0)
NumericColumn(t, c) == [r \in 1..NRows(t) |-> fillna_zero(to_numeric(CellAt(t, r, c)))]

MoneyToNumeric(t) == ForMoneyCols(t, NumericColumn)

\* denom = df_daily["_total_nights"].replace(0, pd.NA)
denom(t) == [r \in 1..NRows(t) |-> replace_zero_na(CellAt(t, r, TotalNightsCol))]

\* df_daily[col] = (df_daily[col] / denom).fillna(0.0)
DividedColumn(t, c) ==
    [r \in 1..NRows(t) |-> fillna_zero(true_divide(CellAt(t, r, c), denom(t)[r]))]

DivideByNights(t) == ForMoneyCols(t, DividedColumn)

\* Variant: the per-night values are rounded and the remainder is dropped.
FixedColumnNoRemainder(group, c, halves) ==
    [r \in 1..NRows(group) |-> round2(CellAt(group, r, c), halves.rounded)]

\* Variant: the remainder goes to the first night of the group.
FixedColumnFirstNight(group, c, halves) ==
    LET first_idx      == CHOOSE m \in Range(group.index) : \A n \in Range(group.index) : m <= n
        original_total == Sum(Column(group, c))
        rounded        == [r \in 1..NRows(group) |-> round2(CellAt(group, r, c), halves.rounded)]
        diff           == round2(Sub(original_total, Sum(rounded)), halves.diff)
    IN  [r \in 1..NRows(group) |->
            IF notna(diff) /\ diff.x # 0 /\ group.index[r] = first_idx
            THEN round2(Add(rounded[r], diff), {})
            ELSE rounded[r]]

\* One pass of the loop of _fix_rounding over the column c of a group.
\* halves.rounded and halves.diff: the halves that round up in
\* group[col].round(2) and in (original_total - rounded.sum()).round(2).
FixedColumn(group, c, halves) ==
    LET last_idx       == SetMax(Range(group.index))
        original_total == Sum(Column(group, c))
        rounded        == [r \in 1..NRows(group) |-> round2(CellAt(group, r, c), halves.rounded)]
        diff           == round2(Sub(original_total, Sum(rounded)), halves.diff)
    IN  [r \in 1..NRows(group) |->
            IF notna(diff) /\ diff.x # 0 /\ group.index[r] = last_idx
            THEN round2(Add(rounded[r], diff), {})
            ELSE rounded[r]]

_fix_rounding(group, halves) == ForMoneyCols(group, LAMBDA g, c : FixedColumn(g, c, halves))

\* The positions of the rows of t whose key column equals that of row r.
GroupOf(t, key, r) ==
    LET i == ColIndex(t, key) IN
    Ascending({q \in 1..NRows(t) : t.rows[q][i] = t.rows[r][i]}, NRows(t))

\* df_daily.groupby("_line_id", group_keys=False).apply(_fix_rounding): each
\* group is transformed on its own and the rows come back in their old order.
GroupByLineIdApply(t, halves) ==
    LET groups == {GroupOf(t, LineIdCol, r) : r \in 1..NRows(t)}
        fixed  == [g \in groups |-> _fix_rounding(TakeRows(t, g), halves)]
    IN  [t EXCEPT !.rows =
            [r \in 1..NRows(t) |->
                LET g == GroupOf(t, LineIdCol, r)
                    k == CHOOSE i \in DOMAIN g : g[i] = r
                IN  fixed[g].rows[k]]]

\* The money cells of t.
MoneyCells(t) ==
    {t.rows[r][j] : r \in 1..NRows(t),
                    j \in {i \in DOMAIN t.columns : InSeq(money_cols, t.columns[i])}}

\* The halves met by group[col].round(2) on the table t ...
RoundedHalves(t) == {CentsBelow(v) : v \in {w \in MoneyCells(t) : IsHalfCent(w)}}

\* ... and by (original_total - rounded.sum()).round(2), whichever way the
\* first rounding went.
DiffOperands(t) ==
    LET groups == {GroupOf(t, LineIdCol, r) : r \in 1..NRows(t)}
        ups    == {{}, RoundedHalves(t)}
    IN  {Sub(Sum([k \in DOMAIN g |-> t.rows[g[k]][j]]),
             Sum([k \in DOMAIN g |-> round2(t.rows[g[k]][j], up)])) :
            g \in groups,
            j \in {i \in DOMAIN t.columns : InSeq(money_cols, t.columns[i])},
            up \in ups}

DiffHalves(t) == {CentsBelow(v) : v \in {w \in DiffOperands(t) : IsHalfCent(w)}}

Channel == H(<<"Channel">>)
SubChannel == H(<<"Sub", "Channel">>)

\* df_daily.rename(columns=rename_map)
RenameMoney(t) ==
    [t EXCEPT !.columns =
        [i \in DOMAIN t.columns |->
            IF InSeq(money_cols, t.columns[i])
            THEN rename_map[CHOOSE j \in DOMAIN money_cols : money_cols[j] = t.columns[i]]
            ELSE t.columns[i]]]

\* Variant: the wanted columns are selected in the order the frame has them.
FinalizeInFrameOrder(t) ==
    LET a == DropColumn(t, StayDatesCol)
        b == IF HasCol(a, Channel) THEN RenameColumn(a, Channel, SubChannel) ELSE a
        c == RenameMoney(b)
        d == DropIfPresent(DropIfPresent(c, Arrival), Departure)
        cols == SelectSeq(d.columns, LAMBDA n : InSeq(desired_cols, n))
        e == DropIfPresent(DropIfPresent(d, LineIdCol), TotalNightsCol)
    IN  SelectColumns(e, cols)

\* Lines 141-195: drop the helper columns, rename, order, select.
Finalize(t) ==
    LET a == DropColumn(t, StayDatesCol)
        b == IF HasCol(a, Channel) THEN RenameColumn(a, Channel, SubChannel) ELSE a
        c == RenameMoney(b)
        d == DropIfPresent(DropIfPresent(c, Arrival), Departure)
        cols == SelectSeq(desired_cols, LAMBDA n : HasCol(d, n))
        e == DropIfPresent(DropIfPresent(d, LineIdCol), TotalNightsCol)
    IN  SelectColumns(e, cols)

\* The whole function on a table that has the required columns.
split_reservations_daily(t, halves) ==
    LET parsed == ConvertDateColumns(CleanColumns(t))
        nights == AssignStayDates(AssignTotalNights(AssignLineId(parsed)))
        daily  == DivideByNights(MoneyToNumeric(ExcelSerials(ExplodeStayDates(nights))))
    IN  Finalize(GroupByLineIdApply(daily, halves))

(***************************************************************************)
(* The uploaded workbooks the model explores                               *)
(***************************************************************************)
MaxRows == 2
MaxNights == 3

\* The civil date (as a date cell) that lies the given number of days after
\* 1970-01-01.
DateCellOfDays(days) ==
    LET z   == days + 719468
        era == z \div 146097
        doe == z - era * 146097
        yoe == (doe - doe \div 1460 + doe \div 36524 - doe \div 146096) \div 365
        doy == doe - (365 * yoe + yoe \div 4 - yoe \div 100)
        mp  == (5 * doy + 2) \div 153
        d   == doy - (153 * mp + 2) \div 5 + 1
        m   == IF mp < 10 THEN mp + 3 ELSE mp - 9
        y   == yoe + era * 400 + (IF m <= 2 THEN 1 ELSE 0)
    IN  DateCell(d, m, y)

\* Arrival dates: two days before the leap day of 2024 and two days before
\* the end of 2023.
ArrivalDays == {DaysFromCivil(2024, 2, 27), DaysFromCivil(2023, 12, 30)}

NoSuchDate == DateCell(30, 2, 2024)

\* <<arrival, departure>> cells of one booking
Stays ==
    {<<DateCellOfDays(a), DateCellOfDays(a + n)>> : a \in ArrivalDays, n \in (-1)..MaxNights}
    \cup {<<Str("tbc"), DateCellOfDays(DaysFromCivil(2024, 1, 3))>>,
          <<DateCellOfDays(DaysFromCivil(2024, 1, 1)), NoSuchDate>>,
          <<NaN, NaN>>}

BookingDates == {DateCell(25, 12, 2023), Str("unknown")}

\* 100.00, 0.02, 0.05, 0.035, -100.00, a text, a number typed as text and
\* a missing value
Amounts ==
    {Num(100000, 1), Num(20, 1), Num(50, 1), Num(35, 1), Num(-100000, 1),
     Str("n/a"), Str("100.00"), NaN}

Booking(res, stay, booked, amount) ==
    [res |-> res, arrival |-> stay[1], departure |-> stay[2], booked |-> booked, amount |-> amount]

\* Bookings varied in every field ...
RichBookings ==
    {Booking("R1", st, bd, am) : st \in Stays, bd \in BookingDates, am \in Amounts}

\* ... and the few bookings that fill the other rows of a table.
PlainBookings ==
    { Booking("R1", <<DateCell(1, 1, 2024), DateCell(3, 1, 2024)>>, DateCell(25, 12, 2023),
              Num(100000, 1)),
      Booking("R2", <<DateCell(5, 1, 2024), DateCell(5, 1, 2024)>>, DateCell(25, 12, 2023),
              Num(100000, 1)) }

\* Lists of n bookings, at most one of them rich.
BookingLists(n) ==
    IF n = 0 THEN {<<>>}
    ELSE {[q \in 1..n |-> IF q = p THEN b ELSE f[q]] :
            p \in 1..n, b \in RichBookings \cup PlainBookings, f \in [1..n -> PlainBookings]}

ReservationNumber == H(<<"Reservation", "Number">>)
TotalRevenue == H(<<"Total", "Revenue">>)
Notes == H(<<"Notes">>)

\* The cell of booking b under the (clean) header c.
CellOf(b, c) ==
    CASE c = ReservationNumber -> Str(b.res)
      [] c = Arrival -> b.arrival
      [] c = Departure -> b.departure
      [] c = BookingDate -> b.booked
      [] c = TotalRevenue -> b.amount
      [] c \in Range(money_cols) \ {TotalRevenue} -> Num(12340, 1)
      [] OTHER -> Str("text")

\* The ways a header is typed: as in the template, padded with spaces, or
\* with tabs after the inner spaces and a trailing line break.
HeaderStyles == {"clean", "padded", "runs"}

Typed(h, style) ==
    CASE style = "clean" -> h
      [] style = "padded" -> <<" ">> \o h \o <<" ", " ">>
      [] style = "runs" ->
            Flatten([i \in DOMAIN h |-> IF h[i] = " " THEN <<" ", "\t">> ELSE <<h[i]>>])
            \o <<"\n">>

\* read_excel's result for the clean headers cols typed in the given style
Workbook(cols, style, bs) ==
    DataFrame([i \in DOMAIN cols |-> Typed(cols[i], style)],
              RangeIndex(Len(bs)),
              [r \in DOMAIN bs |-> [i \in DOMAIN cols |-> CellOf(bs[r], cols[i])]])

Reverse(s) == [i \in DOMAIN s |-> s[Len(s) + 1 - i]]

\* Column layouts: the required columns alone, with one or two money
\* columns, the whole template, and the template reversed with a column the
\* tool does not know.
OptionalLayouts ==
    { required,
      required \o <<TotalRevenue>>,
      <<H(<<"Apartment">>)>> \o required \o <<TotalRevenue, H(<<"Cleaning", "Fees">>)>>,
      TEMPLATE_COLUMNS,
      Reverse(TEMPLATE_COLUMNS) \o <<Notes>> }

\* A layout with the required columns at the positions in gone removed.
Without(cols, gone) == SelectSeq(cols, LAMBDA c : c \notin gone)

SampleBookings ==
    << Booking("R1", <<DateCell(1, 1, 2024), DateCell(4, 1, 2024)>>, DateCell(25, 12, 2023),
               Num(100000, 1)),
       Booking("R1", <<DateCell(27, 2, 2024), DateCell(1, 3, 2024)>>, Str("unknown"),
               Str("n/a")) >>

Uploads ==
    \* every layout, typed every way, with and without required columns
    { Workbook(Without(cols, gone), style, SampleBookings) :
        cols \in OptionalLayouts, gone \in SUBSET Range(required), style \in HeaderStyles }
    \cup
    \* the three-money-column layout with every list of bookings
    { Workbook(<<H(<<"Apartment">>)>> \o required \o <<TotalRevenue, H(<<"Cleaning", "Fees">>)>>,
               "clean", bs) :
        bs \in UNION {BookingLists(n) : n \in 0..MaxRows} }

(***************************************************************************)
(* The script as a state machine                                           *)
(*                                                                         *)
(* heap maps the DataFrame objects that exist to their contents; df_input, *)
(* df, df_daily and df_output are the script's names, each bound to an     *)
(* object or to "none".                                                    *)
(***************************************************************************)
VARIABLES pc, uploaded_file, heap, df_input, df, df_daily, df_output, df_at_call, halves,
          raised, download, shown_error

vars ==
    <<pc, uploaded_file, heap, df_input, df, df_daily, df_output, df_at_call, halves, raised,
      download, shown_error>>

NoFrame == DataFrame(<<>>, <<>>, <<>>)

Store(h, ref, t) == [o \in DOMAIN h \cup {ref} |-> IF o = ref THEN t ELSE h[o]]

NoHalves == [rounded |-> {}, diff |-> {}]

\* The script's first run: no file yet (lines 260-261).
Init ==
    /\ pc = "upload"
    /\ uploaded_file = NoFrame
    /\ halves = NoHalves
    /\ heap = [o \in {} |-> NoFrame]
    /\ df_input = "none"
    /\ df = "none"
    /\ df_daily = "none"
    /\ df_output = "none"
    /\ df_at_call = NoFrame
    /\ raised = <<>>
    /\ download = <<>>
    /\ shown_error = <<>>

\* line 225: the user uploads a workbook and the script runs again
Upload ==
    /\ pc = "upload"
    /\ uploaded_file' \in Uploads
    /\ pc' = "read"
    /\ UNCHANGED <<heap, halves, df_input, df, df_daily, df_output, df_at_call, raised, download,
                   shown_error>>

\* line 229: df_input = pd.read_excel(uploaded_file)
ReadExcel ==
    /\ pc = "read"
    /\ heap' = Store(heap, "uploaded", uploaded_file)
    /\ df_input' = "uploaded"
    /\ pc' = "clean_input"
    /\ UNCHANGED <<uploaded_file, halves, df, df_daily, df_output, df_at_call, raised, download,
                   shown_error>>

\* lines 230-237: the script cleans the headers of its own table
CleanInputColumns ==
    /\ pc = "clean_input"
    /\ heap' = Store(heap, df_input, CleanColumns(heap[df_input]))
    /\ pc' = "call"
    /\ UNCHANGED <<uploaded_file, halves, df_input, df, df_daily, df_output, df_at_call, raised, download, shown_error>>

\* line 239: split_reservations_daily(df_input) is entered
Call ==
    /\ pc = "call"
    /\ df' = df_input
    /\ df_at_call' = heap[df_input]
    /\ pc' = "copy"
    /\ UNCHANGED <<uploaded_file, halves, heap, df_input, df_daily, df_output, raised, download, shown_error>>

\* Variant: no copy is made, df keeps naming the caller's object.
SameRef(ref) == ref

\* The object df.copy() returns.
CopyRef(ref) == "copy"

\* line 40: df = df.copy()
Copy ==
    /\ pc = "copy"
    /\ df' = CopyRef(df)
    /\ heap' = Store(heap, CopyRef(df), heap[df])
    /\ pc' = "clean"
    /\ UNCHANGED <<uploaded_file, halves, df_input, df_daily, df_output, df_at_call, raised, download, shown_error>>

\* A statement of the function that updates the object df names.
UpdateDf(at, f(_), next) ==
    /\ pc = at
    /\ heap' = Store(heap, df, f(heap[df]))
    /\ pc' = next
    /\ UNCHANGED <<uploaded_file, halves, df_input, df, df_daily, df_output, df_at_call, raised, download, shown_error>>

\* A statement of the function that updates the object df_daily names.
UpdateDaily(at, f(_), next) ==
    /\ pc = at
    /\ heap' = Store(heap, df_daily, f(heap[df_daily]))
    /\ pc' = next
    /\ UNCHANGED <<uploaded_file, halves, df_input, df, df_daily, df_output, df_at_call, raised, download, shown_error>>

\* lines 43-47
CleanNames == UpdateDf("clean", CleanColumns, "check")

\* lines 49-52, required columns missing: raise ValueError
RaiseMissing ==
    /\ pc = "check"
    /\ MissingColumns(heap[df]) # <<>>
    /\ raised' = MissingColumns(heap[df])
    /\ pc' = "except"
    /\ UNCHANGED <<uploaded_file, halves, heap, df_input, df, df_daily, df_output, df_at_call, download, shown_error>>

\* lines 49-52, nothing missing
PassCheck ==
    /\ pc = "check"
    /\ MissingColumns(heap[df]) = <<>>
    /\ pc' = "dates"
    /\ UNCHANGED <<uploaded_file, halves, heap, df_input, df, df_daily, df_output, df_at_call, raised, download,
                   shown_error>>

\* lines 55-57
ParseDates == UpdateDf("dates", ConvertDateColumns, "line_id")

\* line 60
LineId == UpdateDf("line_id", AssignLineId, "nights")

\* lines 63-64
TotalNights == UpdateDf("nights", AssignTotalNights, "stay_dates")

\* lines 67-72
StayDates == UpdateDf("stay_dates", AssignStayDates, "explode")

\* lines 75-76: df_daily is a new object
Explode ==
    /\ pc = "explode"
    /\ df_daily' = "daily"
    /\ heap' = Store(heap, "daily", ExplodeStayDates(heap[df]))
    /\ pc' = "serials"
    /\ UNCHANGED <<uploaded_file, halves, df_input, df, df_output, df_at_call, raised, download, shown_error>>

\* lines 79-90
Serials == UpdateDaily("serials", ExcelSerials, "numeric")

\* lines 107-109
ToNumeric == UpdateDaily("numeric", MoneyToNumeric, "divide")

\* lines 113-117
Divide == UpdateDaily("divide", DivideByNights, "fix_rounding")

\* lines 121-139
FixRounding ==
    /\ pc = "fix_rounding"
    /\ \E up \in SUBSET RoundedHalves(heap[df_daily]), ud \in SUBSET DiffHalves(heap[df_daily]) :
          /\ halves' = [rounded |-> up, diff |-> ud]
          /\ heap' = Store(heap, df_daily, GroupByLineIdApply(heap[df_daily], halves'))
    /\ pc' = "finalize"
    /\ UNCHANGED <<uploaded_file, df_input, df, df_daily, df_output, df_at_call, raised, download,
                   shown_error>>

\* lines 142-195: the function returns a new table to line 239
Return ==
    /\ pc = "finalize"
    /\ df_output' = "output"
    /\ heap' = Store(heap, "output", Finalize(heap[df_daily]))
    /\ pc' = "write"
    /\ UNCHANGED <<uploaded_file, halves, df_input, df, df_daily, df_at_call, raised, download, shown_error>>

\* lines 241-256: both sheets are written and offered for download
WriteExcel ==
    /\ pc = "write"
    /\ download' = << heap[df_input], heap[df_output] >>
    /\ pc' = "done"
    /\ UNCHANGED <<uploaded_file, halves, heap, df_input, df, df_daily, df_output, df_at_call, raised, shown_error>>

\* lines 258-259: st.error
ShowError ==
    /\ pc = "except"
    /\ shown_error' = raised
    /\ pc' = "failed"
    /\ UNCHANGED <<uploaded_file, halves, heap, df_input, df, df_daily, df_output, df_at_call, raised, download>>

Next ==
    \/ Upload \/ ReadExcel \/ CleanInputColumns \/ Call \/ Copy \/ CleanNames \/ RaiseMissing
    \/ PassCheck \/ ParseDates \/ LineId \/ TotalNights \/ StayDates \/ Explode
    \/ Serials \/ ToNumeric \/ Divide \/ FixRounding \/ Return \/ WriteExcel \/ ShowError

Spec == Init /\ [][Next]_vars

(***************************************************************************)
(* Vocabulary of the properties                                            *)
(***************************************************************************)
\* The function has returned its table to the script.
Returned == pc \in {"write", "done"}

\* The function has raised.
Failed == pc \in {"except", "failed"}

\* The function has been entered.
Called == pc \notin {"upload", "read", "clean_input", "call"}

\* The argument of the call and the table the call returned.
In == df_at_call
Out == heap["output"]

InCell(r, c) == In.rows[r][ColIndex(In, c)]
OutCell(k, c) == Out.rows[k][ColIndex(Out, c)]

\* A date cell that names a day of the calendar, and the day it names.
Exists(cell) == cell.k = "date" /\ IsValidDate(cell.x, cell.y, cell.z)
DayNumber(cell) == DaysFromCivil(cell.x, cell.y, cell.z)

\* Whole days from 1899-12-30 to the day numbered days.
ExcelSerial(days) == days - DaysFromCivil(1899, 12, 30)

\* D of input row r: departure - arrival in whole days, 0 when that is not
\* positive or a date does not parse.
NightCount(r) ==
    LET a == InCell(r, Arrival)
        d == InCell(r, Departure)
    IN  IF Exists(a) /\ Exists(d) /\ DayNumber(d) > DayNumber(a)
        THEN DayNumber(d) - DayNumber(a)
        ELSE 0

\* The nights of the rows before input row r.
RECURSIVE NightsBefore(_)
NightsBefore(r) == IF r = 1 THEN 0 ELSE NightsBefore(r - 1) + NightCount(r - 1)

\* The k-th night of input row r is this row of the nightly table.
NightRow(r, k) == NightsBefore(r) + k

\* Input row r has its NightCount(r) rows in the nightly table.
HasNightRows(r) == NightsBefore(r) + NightCount(r) <= NRows(Out)

\* The monetary columns of the input and their names in the output.
InMoneyCols == {c \in Range(money_cols) : HasCol(In, c)}
PerNight(c) == rename_map[CHOOSE j \in DOMAIN money_cols : money_cols[j] = c]

\* The numerically coerced value of a monetary cell, in thousandths.
IsNumeric(cell) == cell.k = "num" \/ (cell.k = "str" /\ cell.s \in DOMAIN NumericText)
Coerced(cell) ==
    IF cell.k = "num" THEN cell.x
    ELSE IF cell.k = "str" /\ cell.s \in DOMAIN NumericText THEN NumericText[cell.s]
    ELSE 0

\* A per-night cell holding a whole number of cents.
WholeCents(cell) == cell.k = "num" /\ cell.y = 1 /\ cell.x % 10 = 0

\* The sum, in thousandths, of output column c over the nights of input row r.
RECURSIVE SumNights(_, _, _)
SumNights(r, c, k) == IF k = 0 THEN 0 ELSE SumNights(r, c, k - 1) + OutCell(NightRow(r, k), c).x

\* v thousandths rounded to 2 decimals, a tie to the even cent.
RoundHalfEven(v) ==
    LET q == v \div 10
        m == v % 10
    IN  IF m < 5 THEN 10 * q
        ELSE IF m > 5 THEN 10 * (q + 1)
        ELSE IF q % 2 = 0 THEN 10 * q ELSE 10 * (q + 1)

\* The whole cents (in thousandths) nearest to v / d thousandths: one value,
\* or the two neighbours of a value that lies halfway.
NearestCents(v, d) ==
    LET q == v \div (10 * d) IN
    {x \in {10 * q, 10 * (q + 1)} : 2 * Abs(x * d - v) <= 10 * d}

(***************************************************************************)
(* C1  Conservation                                                        *)
(***************************************************************************)
\* C1 as stated: for every input row, zero-night rows included, and every
\* monetary column of the input, the per-night values of the row's nights
\* sum to the row's coerced value rounded to 2 decimals.
C1_ConservationEveryRow ==
    Returned =>
        \A r \in 1..NRows(In) : \A c \in InMoneyCols :
            /\ HasCol(Out, PerNight(c))
            /\ HasNightRows(r)
            /\ SumNights(r, PerNight(c), NightCount(r)) = RoundHalfEven(Coerced(InCell(r, c)))

\* C1 amended: for every input row with at least one night and every
\* monetary column of the input, the per-night values are whole cents and
\* their sum is a cent nearest to the row's coerced value: the value itself
\* when it has at most 2 decimals, within half a cent of it otherwise.
C1_ConservationOfStays ==
    Returned =>
        \A r \in 1..NRows(In) : \A c \in InMoneyCols :
            NightCount(r) >= 1 =>
                /\ HasCol(Out, PerNight(c))
                /\ HasNightRows(r)
                /\ \A k \in 1..NightCount(r) : WholeCents(OutCell(NightRow(r, k), PerNight(c)))
                /\ SumNights(r, PerNight(c), NightCount(r))
                       \in NearestCents(Coerced(InCell(r, c)), 1)

\* 0.035 over 3 nights has been split next to 100.00 over 2 nights, and the
\* nights of each sum to a whole number of cents.
C1_Witness ==
    /\ Returned
    /\ HasCol(In, TotalRevenue)
    /\ \E r \in 1..NRows(In) :
          /\ NightCount(r) = 3 /\ InCell(r, TotalRevenue) = Num(35, 1)
          /\ HasNightRows(r)
          /\ SumNights(r, PerNight(TotalRevenue), 3) \in {30, 40}
    /\ \E r \in 1..NRows(In) :
          /\ NightCount(r) = 2 /\ InCell(r, TotalRevenue) = Num(100000, 1)
          /\ HasNightRows(r)
          /\ SumNights(r, PerNight(TotalRevenue), 2) = 100000

(***************************************************************************)
(* C2  Expansion                                                           *)
(***************************************************************************)
\* C2: a row with D >= 1 nights has exactly D nightly rows, dated arrival,
\* arrival + 1, ..., departure - 1; the nightly table has the sum of the D
\* rows and every row has Nights = 1.
C2_Expansion ==
    Returned =>
        /\ HasCol(Out, DateCol) /\ HasCol(Out, NightsCol) /\ HasCol(Out, ReservationNumber)
        /\ NRows(Out) = NightsBefore(NRows(In) + 1)
        /\ \A k \in 1..NRows(Out) : OutCell(k, NightsCol) = IntCell(1)
        /\ \A r \in 1..NRows(In) : \A k \in 1..NightCount(r) :
              /\ OutCell(NightRow(r, k), DateCol)
                     = IntCell(ExcelSerial(DayNumber(InCell(r, Arrival)) + k - 1))
              /\ OutCell(NightRow(r, k), ReservationNumber) = InCell(r, ReservationNumber)

\* Two stays of 3 and 2 nights have been expanded into 5 rows.
C2_Witness ==
    /\ Returned
    /\ NRows(In) = 2
    /\ NightCount(1) = 3 /\ NightCount(2) = 2
    /\ NRows(Out) = 5

(***************************************************************************)
(* C3  Remainder allocation                                                *)
(***************************************************************************)
\* C3: for a row with D >= 1 nights and a monetary column holding v, every
\* night but the last carries v / D rounded to the cent, and the last night
\* (the one with the greatest Date) carries that rounded value plus the
\* rounding difference v - D * rounded, itself rounded to the cent.
C3_RemainderOnLastNight ==
    Returned =>
        \A r \in 1..NRows(In) : \A c \in InMoneyCols :
            NightCount(r) >= 1 =>
                LET D == NightCount(r)
                    v == Coerced(InCell(r, c))
                    night(k) == OutCell(NightRow(r, k), PerNight(c))
                IN  /\ HasCol(Out, PerNight(c)) /\ HasCol(Out, DateCol)
                    /\ HasNightRows(r)
                    /\ \A k \in 1..D : WholeCents(night(k))
                    /\ \A k \in 1..D :
                          OutCell(NightRow(r, k), DateCol).x <= OutCell(NightRow(r, D), DateCol).x
                    /\ \E rounded \in NearestCents(v, D) :
                          /\ \A k \in 1..(D - 1) : night(k).x = rounded
                          /\ \E diff \in NearestCents(v - D * rounded, 1) :
                                night(D).x = rounded + diff

\* 100.00 over 3 nights has come out as 33.33, 33.33, 33.34.
C3_Witness ==
    /\ Returned
    /\ HasCol(In, TotalRevenue)
    /\ \E r \in 1..NRows(In) :
          /\ NightCount(r) = 3
          /\ InCell(r, TotalRevenue) = Num(100000, 1)
          /\ HasNightRows(r)
          /\ OutCell(NightRow(r, 1), PerNight(TotalRevenue)) = Num(33330, 1)
          /\ OutCell(NightRow(r, 2), PerNight(TotalRevenue)) = Num(33330, 1)
          /\ OutCell(NightRow(r, 3), PerNight(TotalRevenue)) = Num(33340, 1)

(***************************************************************************)
(* C4  Zero or negative span                                               *)
(***************************************************************************)
\* The columns and rows of a table, without its row labels.
Body(t) == [columns |-> t.columns, rows |-> t.rows]

\* The input without the rows that have no night.
StaysOnly == TakeRows(In, Ascending({r \in 1..NRows(In) : NightCount(r) >= 1}, NRows(In)))

HasRequired(t) == \A c \in Range(required) : HasCol(t, c)

\* C4: a row whose departure is on or before its arrival, or whose arrival
\* or departure does not parse, adds no nightly row and no error, and the
\* nightly table is the one the input without such rows gives.
C4_ZeroSpanContributesNothing ==
    /\ (Called /\ HasRequired(In)) => ~Failed
    /\ Returned =>
          /\ NRows(Out) = NightsBefore(NRows(In) + 1)
          /\ Body(Out) = Body(split_reservations_daily(StaysOnly, halves))

\* A table of a stay and of a booking without nights has been split, and
\* so has a table of bookings without nights only.
C4_Witness ==
    /\ pc = "done"
    /\ NRows(In) = 2
    /\ \/ NightCount(1) = 0 /\ NightCount(2) >= 1 /\ NRows(Out) = NightCount(2)
       \/ NightCount(1) = 0 /\ NightCount(2) = 0 /\ NRows(Out) = 0

(***************************************************************************)
(* C5  Missing required column                                             *)
(***************************************************************************)
\* The required names no header of the argument equals, in the order of
\* the check.
Absent == SelectSeq(required, LAMBDA c : \A i \in DOMAIN In.columns : In.columns[i] # c)

\* C5: when a required column is absent after header normalization the
\* call fails naming exactly the absent ones and nothing is produced or
\* offered for download; when none is absent it does not fail.
C5_MissingRequiredColumn ==
    /\ pc \notin {"upload", "read", "clean_input", "call", "copy", "clean", "check"} =>
          (Failed <=> Absent # <<>>)
    /\ Failed =>
          /\ raised = Absent
          /\ df_output = "none"
          /\ "output" \notin DOMAIN heap
          /\ download = <<>>
    /\ pc = "failed" => shown_error = Absent

\* The call on a table without Departure has failed naming Departure, and
\* no download is offered.
C5_Witness ==
    /\ pc = "failed"
    /\ shown_error = <<Departure>>
    /\ download = <<>>

(***************************************************************************)
(* C6  Output columns                                                      *)
(***************************************************************************)
\* The columns of the nightly table in their order, each with the input
\* column it comes from.
OutputLayout ==
    << <<H(<<"Reservation", "Number">>), H(<<"Reservation", "Number">>)>>,
       <<H(<<"Apartment">>), H(<<"Apartment">>)>>,
       <<H(<<"Guest", "Name">>), H(<<"Guest", "Name">>)>>,
       <<H(<<"Sub", "Channel">>), H(<<"Channel">>)>>,
       <<H(<<"Date">>), H(<<"Arrival">>)>>,
       <<H(<<"Booking", "Date">>), H(<<"Booking", "Date">>)>>,
       <<H(<<"Nights">>), H(<<"Arrival">>)>>,
       <<H(<<"Base", "Revenue", "per", "Night">>), H(<<"Base", "Revenue">>)>>,
       <<H(<<"Total", "Revenue", "per", "Night">>), H(<<"Total", "Revenue">>)>>,
       <<H(<<"Room", "Revenue", "per", "Night">>), H(<<"Room", "Revenue">>)>>,
       <<H(<<"Service", "Charge", "per", "Night">>), H(<<"SC", "on", "Room", "Revenue">>)>>,
       <<H(<<"VAT", "on", "Room", "Revenue", "per", "Night">>), H(<<"VAT", "on", "Room", "Rev">>)>>,
       <<H(<<"VAT", "on", "Service", "Charge", "per", "Night">>), H(<<"VAT", "on", "SC">>)>>,
       <<H(<<"Cleaning", "Fees", "(Excl", "VAT)", "per", "Night">>),
         H(<<"Cleaning", "Fees", "Without", "VAT">>)>>,
       <<H(<<"VAT", "on", "Cleaning", "Fees", "per", "Night">>),
         H(<<"VAT", "on", "Cleaning", "Fees">>)>>,
       <<H(<<"Tourism", "Dirham", "Fees", "per", "Night">>), H(<<"Tourism", "Dirham", "Fees">>)>>,
       <<H(<<"Cleaning", "Fees", "per", "Night">>), H(<<"Cleaning", "Fees">>)>> >>

ExpectedColumns ==
    LET present == SelectSeq(OutputLayout, LAMBDA p : HasCol(In, p[2]))
    IN  [i \in DOMAIN present |-> present[i][1]]

KnownSerial ==
    (<<2024, 1, 1>> :> 45292) @@ (<<2024, 2, 27>> :> 45349) @@ (<<2023, 12, 30>> :> 45290)
    @@ (<<2023, 12, 31>> :> 45291) @@ (<<2023, 12, 25>> :> 45285) @@ (<<2024, 1, 4>> :> 45295)
    @@ (<<2024, 3, 1>> :> 45352) @@ (<<2024, 1, 2>> :> 45293) @@ (<<2024, 1, 3>> :> 45294)

Known(cell) == cell.k = "date" /\ <<cell.x, cell.y, cell.z>> \in DOMAIN KnownSerial
SerialOf(cell) == KnownSerial[<<cell.x, cell.y, cell.z>>]

\* C7: Date and Booking Date are day counts from 1899-12-30 (2024-01-01 is
\* 45292), and the Dates of a stay are the consecutive integers from the
\* arrival's count to the departure's count minus one.
C7_DateConversion ==
    Returned =>
        /\ HasCol(Out, DateCol) /\ HasCol(Out, BookingDate)
        /\ \A r \in 1..NRows(In) :
              NightCount(r) >= 1 =>
                 /\ HasNightRows(r)
                 /\ \A k \in 1..NightCount(r) :
                       /\ Known(InCell(r, Arrival)) =>
                             OutCell(NightRow(r, k), DateCol)
                                 = IntCell(SerialOf(InCell(r, Arrival)) + k - 1)
                       /\ Known(InCell(r, BookingDate)) =>
                             OutCell(NightRow(r, k), BookingDate)
                                 = IntCell(SerialOf(InCell(r, BookingDate)))
                 /\ Known(InCell(r, Departure)) =>
                       OutCell(NightRow(r, NightCount(r)), DateCol)
                           = IntCell(SerialOf(InCell(r, Departure)) - 1)

\* A stay from 2024-02-27 to 2024-03-01, booked on 2023-12-25, has the
\* Dates 45349, 45350, 45351 (the leap day) and the Booking Date 45285.
C7_Witness ==
    /\ Returned
    /\ \E r \in 1..NRows(In) :
          /\ InCell(r, Arrival) = DateCell(27, 2, 2024)
          /\ InCell(r, Departure) = DateCell(1, 3, 2024)
          /\ InCell(r, BookingDate) = DateCell(25, 12, 2023)
          /\ HasNightRows(r)
          /\ OutCell(NightRow(r, 3), DateCol) = IntCell(45351)
          /\ OutCell(NightRow(r, 3), BookingDate) = IntCell(45285)

(***************************************************************************)
(* C8  The input is never mutated                                          *)
(***************************************************************************)
\* C8: from the call on, whether the function returns or raises, the
\* caller's table is what it was when the function was called.
C8_InputNotMutated == Called => heap[df_input] = df_at_call

\* The function has returned after rewriting the date cells of its own copy,
\* and the sheet of the original data is the table as it was at the call.
C8_Witness ==
    /\ pc = "done"
    /\ NRows(In) >= 1
    /\ heap["copy"] # df_at_call
    /\ download[1] = df_at_call

(***************************************************************************)
(* C9  Column normalization                                                *)
(***************************************************************************)
\* The words of a header, and the header with its words one space apart.
Words(h) == SelectSeq(h, LAMBDA tok : tok \notin Whitespace)
Trimmed(h) == H(Words(h))

\* The uploaded table with every header trimmed.
TrimmedUpload ==
    [uploaded_file EXCEPT !.columns = [i \in DOMAIN uploaded_file.columns |->
                                          Trimmed(uploaded_file.columns[i])]]

\* C9: normalizing a normalized header changes nothing (the function's own
\* normalization leaves the headers the script normalized); a table whose
\* headers differ from the expected names by leading, trailing or longer
\* inner whitespace passes the required-column check exactly when the table
\* with trimmed headers does, and gives the same nightly table.
C9_ColumnNormalization ==
    /\ \A i \in DOMAIN uploaded_file.columns :
          CleanName(CleanName(uploaded_file.columns[i])) = CleanName(uploaded_file.columns[i])
    /\ Called => In.columns = TrimmedUpload.columns
    /\ pc = "check" => heap[df].columns = In.columns
    /\ Failed => ~HasRequired(TrimmedUpload)
    /\ Returned =>
          /\ HasRequired(TrimmedUpload)
          /\ Out = split_reservations_daily(TrimmedUpload, halves)

\* A table whose headers were typed with tabs and a trailing line break has
\* passed the check and been split.
C9_Witness ==
    /\ pc = "done"
    /\ \E i \in DOMAIN uploaded_file.columns :
          uploaded_file.columns[i] = <<"Booking", " ", "\t", "Date", "\n">>
    /\ NRows(Out) >= 1

(***************************************************************************)
(* C10  Per-field degradation                                              *)
(***************************************************************************)
TextCols == {H(<<"Reservation", "Number">>), H(<<"Apartment">>), H(<<"Guest", "Name">>)}

\* C10: a stay whose booking date does not parse, or one of whose monetary
\* cells is not a number, still has its D nightly rows; in each of them
\* Booking Date is null for the bad booking date and the bad monetary cell
\* counts 0, and the Date, the texts and the other monetary cells are what
\* they are for a stay without a bad field.
C10_PerFieldDegradation ==
    /\ (Called /\ HasRequired(In)) => pc # "except"
    /\ Returned =>
          \A r \in 1..NRows(In) :
              NightCount(r) >= 1 =>
                 /\ HasNightRows(r)
                 /\ HasCol(Out, BookingDate) /\ HasCol(Out, DateCol)
                 /\ \A k \in 1..NightCount(r) :
                       /\ OutCell(NightRow(r, k), BookingDate) =
                             IF Exists(InCell(r, BookingDate))
                             THEN IntCell(ExcelSerial(DayNumber(InCell(r, BookingDate))))
                             ELSE NaN
                       /\ OutCell(NightRow(r, k), DateCol).k = "int"
                       /\ OutCell(NightRow(r, k), DateCol).x
                              = OutCell(NightRow(r, 1), DateCol).x + k - 1
                       /\ \A c \in TextCols :
                              HasCol(In, c) =>
                                 HasCol(Out, c) /\ OutCell(NightRow(r, k), c) = InCell(r, c)
                       /\ \A c \in InMoneyCols :
                              /\ HasCol(Out, PerNight(c))
                              /\ OutCell(NightRow(r, k), PerNight(c)).k = "num"
                              /\ ~IsNumeric(InCell(r, c)) =>
                                    OutCell(NightRow(r, k), PerNight(c)) = Num(0, 1)
                 /\ \A c \in InMoneyCols :
                       IsNumeric(InCell(r, c)) =>
                          2 * Abs(SumNights(r, PerNight(c), NightCount(r)) - Coerced(InCell(r, c)))
                              <= 10

\* A stay of 2 nights with a booking date and a Total Revenue that are
\* texts has its 2 rows, with a null Booking Date, 0 for Total Revenue and
\* 6.17 for Cleaning Fees.
C10_Witness ==
    /\ pc = "done"
    /\ HasCol(In, TotalRevenue) /\ HasCol(In, H(<<"Cleaning", "Fees">>))
    /\ \E r \in 1..NRows(In) :
          /\ NightCount(r) = 2
          /\ InCell(r, BookingDate) = Str("unknown")
          /\ InCell(r, TotalRevenue) = Str("n/a")
          /\ HasNightRows(r)
          /\ OutCell(NightRow(r, 2), BookingDate) = NaN
          /\ OutCell(NightRow(r, 2), PerNight(TotalRevenue)) = Num(0, 1)
          /\ OutCell(NightRow(r, 2), H(<<"Cleaning", "Fees", "per", "Night">>)) = Num(6170, 1)

====
